---- MODULE Spec2Model ----
(***************************************************************************)
(* Model of bootstrap/stage0/unknown_fs.cpp: the filesystem adapter of the *)
(* backend that has no native implementation.  Both primitives             *)
(* (make_directory, current_directory) write one diagnostic line with      *)
(* warnln and return Error::from_errno(38).                                *)
(*                                                                         *)
(* Every caller thread is a small state machine that walks through the     *)
(* statements of the function it called: the call itself (parameter        *)
(* binding), the warnln statement and the return statement.  The           *)
(* diagnostic stream (stderr), the directories of the filesystem and the   *)
(* working directory of the process are shared by all threads.             *)
(***************************************************************************)
EXTENDS Integers, Sequences, FiniteSets

\* ---------------------------------------------------------------- bounds
NumThreads == 2
MaxCalls == 4

Threads == 1..NumThreads

\* Paths a caller passes to make_directory (the empty path included).
Paths == {"", "/tmp/example", "/tmp"}

\* Filesystems the process may start on: (directories, working directory).
InitialDirs == {{"/"}, {"/", "/tmp"}}

\* ------------------------------------------------------------ data types
NoPath == "<no path>"
NoValue == "<no value>"
NoError == [code |-> -1]
Void == "<void>"

\* The literals passed to Error::from_errno by the two functions.  Each is
\* an int literal inside the range of i32, so static_cast<i32> keeps it.
make_directory_errno == 38
current_directory_errno == 38

\* Error::from_errno(code): an Error carrying the code.
Error_from_errno(code) == [code |-> code]

\* ErrorOr<T> constructed from an Error, and from a value of T.
ErrorOr_from_error(e) ==
    [has_value |-> FALSE, value |-> NoValue, is_error |-> TRUE, error |-> e]
ErrorOr_from_value(v) ==
    [has_value |-> TRUE, value |-> v, is_error |-> FALSE, error |-> NoError]

\* ------------------------------------------------------------ formatting
\* A format string is a sequence of segments; the segment "{}" is a
\* placeholder that takes the next argument.
Placeholder == "{}"
make_directory_fmt == <<"NOT IMPLEMENTED: make_directory ", Placeholder>>
current_directory_fmt == <<"NOT IMPLEMENTED: current_directory">>

RECURSIVE Format(_, _)
Format(fmt, args) ==
    IF fmt = <<>> THEN ""
    ELSE IF Head(fmt) = Placeholder
         THEN IF args = <<>>
              THEN Placeholder \o Format(Tail(fmt), args)
              ELSE Head(args) \o Format(Tail(fmt), Tail(args))
         ELSE Head(fmt) \o Format(Tail(fmt), args)

\* warnln(fmt, args...): one formatted line appended to the stream.
warnln(stream, fmt, args) == Append(stream, Format(fmt, args))

\* ----------------------------------------------------------------- state
VARIABLES
    pc,         \* pc[t]: the statement thread t is about to execute
    path,       \* path[t]: the parameter of the make_directory call of t
    stderr,     \* the diagnostic stream: the lines written so far
    dirs,       \* the directories that exist on the filesystem
    cwd,        \* the working directory of the process
    returned,   \* the calls that have returned to their callers, each with
                \* the result it returned, in order of return
    calls       \* number of calls started

vars == <<pc, path, stderr, dirs, cwd, returned, calls>>

Init ==
    /\ pc = [t \in Threads |-> "idle"]
    /\ path = [t \in Threads |-> NoPath]
    /\ stderr = <<>>
    /\ dirs \in InitialDirs
    /\ cwd \in dirs
    /\ returned = <<>>
    /\ calls = 0

\* A returned call, as its caller sees it.
Returned(op, p, r) == [op |-> op, path |-> p, result |-> r]

\* --------------------------------------------------------- make_directory
\* A caller invokes make_directory(p): the parameter is bound.
Call_make_directory(t, p) ==
    /\ pc[t] = "idle"
    /\ calls < MaxCalls
    /\ pc' = [pc EXCEPT ![t] = "make_directory_L6"]
    /\ path' = [path EXCEPT ![t] = p]
    /\ calls' = calls + 1
    /\ UNCHANGED <<stderr, dirs, cwd, returned>>

\* Faulty variant of line 6: the diagnostic is forgotten.
make_directory_L6_Silent(t) ==
    /\ pc[t] = "make_directory_L6"
    /\ pc' = [pc EXCEPT ![t] = "make_directory_L7"]
    /\ UNCHANGED <<path, stderr, dirs, cwd, returned, calls>>

\* Faulty variant of line 6: a diagnostic already in the stream is not
\* written again (a warn-once flag kept between calls).
make_directory_L6_WarnOnce(t) ==
    /\ pc[t] = "make_directory_L6"
    /\ stderr' = IF \E i \in DOMAIN stderr :
                        stderr[i] = Format(make_directory_fmt, <<path[t]>>)
                 THEN stderr
                 ELSE warnln(stderr, make_directory_fmt, <<path[t]>>)
    /\ pc' = [pc EXCEPT ![t] = "make_directory_L7"]
    /\ UNCHANGED <<path, dirs, cwd, returned, calls>>

\* warnln(String("NOT IMPLEMENTED: make_directory {}"),path);
make_directory_L6(t) ==
    /\ pc[t] = "make_directory_L6"
    /\ stderr' = warnln(stderr, make_directory_fmt, <<path[t]>>)
    /\ pc' = [pc EXCEPT ![t] = "make_directory_L7"]
    /\ UNCHANGED <<path, dirs, cwd, returned, calls>>

\* The return of make_directory with result r to the caller t.
make_directory_return(t, r) ==
    /\ returned' = Append(returned, Returned("make_directory", path[t], r))
    /\ path' = [path EXCEPT ![t] = NoPath]
    /\ pc' = [pc EXCEPT ![t] = "idle"]

\* Faulty variant of line 7: the return is missing and control falls
\* through to line 9, return {}.
make_directory_L7_FallsThrough(t) ==
    /\ pc[t] = "make_directory_L7"
    /\ make_directory_return(t, ErrorOr_from_value(Void))
    /\ UNCHANGED <<stderr, dirs, cwd, calls>>

\* Faulty variant of line 7: only the first call reports "not implemented",
\* later calls report "file exists" (17).
make_directory_L7_Stateful(t) ==
    /\ pc[t] = "make_directory_L7"
    /\ make_directory_return(t,
            ErrorOr_from_error(Error_from_errno(
                IF returned = <<>> THEN make_directory_errno ELSE 17)))
    /\ UNCHANGED <<stderr, dirs, cwd, calls>>

\* Faulty variant of line 7: the empty path is rejected as an invalid
\* argument (22).
make_directory_L7_RejectsEmpty(t) ==
    /\ pc[t] = "make_directory_L7"
    /\ make_directory_return(t,
            ErrorOr_from_error(Error_from_errno(
                IF path[t] = "" THEN 22 ELSE make_directory_errno)))
    /\ UNCHANGED <<stderr, dirs, cwd, calls>>

\* Faulty variant of line 7: the directory is created before the error is
\* returned.
make_directory_L7_Creates(t) ==
    /\ pc[t] = "make_directory_L7"
    /\ dirs' = dirs \cup {path[t]}
    /\ make_directory_return(t,
            ErrorOr_from_error(Error_from_errno(make_directory_errno)))
    /\ UNCHANGED <<stderr, cwd, calls>>

\* return Error::from_errno(static_cast<i32>(38));
make_directory_L7(t) ==
    /\ pc[t] = "make_directory_L7"
    /\ make_directory_return(t,
            ErrorOr_from_error(Error_from_errno(make_directory_errno)))
    /\ UNCHANGED <<stderr, dirs, cwd, calls>>

\* ------------------------------------------------------ current_directory
\* A caller invokes current_directory().
Call_current_directory(t) ==
    /\ pc[t] = "idle"
    /\ calls < MaxCalls
    /\ pc' = [pc EXCEPT ![t] = "current_directory_L14"]
    /\ calls' = calls + 1
    /\ UNCHANGED <<path, stderr, dirs, cwd, returned>>

\* Faulty variant of line 14: the diagnostic carries an argument.
current_directory_L14_WithArgument(t) ==
    /\ pc[t] = "current_directory_L14"
    /\ stderr' = warnln(stderr,
                        <<"NOT IMPLEMENTED: current_directory ", Placeholder>>,
                        <<cwd>>)
    /\ pc' = [pc EXCEPT ![t] = "current_directory_L15"]
    /\ UNCHANGED <<path, dirs, cwd, returned, calls>>

\* warnln(String("NOT IMPLEMENTED: current_directory"));
current_directory_L14(t) ==
    /\ pc[t] = "current_directory_L14"
    /\ stderr' = warnln(stderr, current_directory_fmt, <<>>)
    /\ pc' = [pc EXCEPT ![t] = "current_directory_L15"]
    /\ UNCHANGED <<path, dirs, cwd, returned, calls>>

\* The return of current_directory with result r to the caller t.
current_directory_return(t, r) ==
    /\ returned' = Append(returned, Returned("current_directory", NoPath, r))
    /\ pc' = [pc EXCEPT ![t] = "idle"]

\* Faulty variant of line 15: the working directory is returned.
current_directory_L15_ReturnsCwd(t) ==
    /\ pc[t] = "current_directory_L15"
    /\ current_directory_return(t, ErrorOr_from_value(cwd))
    /\ UNCHANGED <<path, stderr, dirs, cwd, calls>>

\* Faulty variant of line 15: another errno, "operation not supported"
\* (95), is returned.
current_directory_L15_OtherErrno(t) ==
    /\ pc[t] = "current_directory_L15"
    /\ current_directory_return(t, ErrorOr_from_error(Error_from_errno(95)))
    /\ UNCHANGED <<path, stderr, dirs, cwd, calls>>

\* Faulty variant of line 15: the return is missing and control flows off
\* the end of the function (line 17); the caller reads a result that was
\* never constructed, with any combination of the two shapes.
current_directory_L15_NoReturn(t) ==
    /\ pc[t] = "current_directory_L15"
    /\ \E hv \in BOOLEAN, ie \in BOOLEAN :
            /\ hv = ie
            /\ current_directory_return(t,
                    [has_value |-> hv, value |-> NoValue,
                     is_error |-> ie, error |-> NoError])
    /\ UNCHANGED <<path, stderr, dirs, cwd, calls>>

\* return Error::from_errno(static_cast<i32>(38));
current_directory_L15(t) ==
    /\ pc[t] = "current_directory_L15"
    /\ current_directory_return(t,
            ErrorOr_from_error(Error_from_errno(current_directory_errno)))
    /\ UNCHANGED <<path, stderr, dirs, cwd, calls>>

\* ------------------------------------------------------------------ Next
Next ==
    \/ \E t \in Threads, p \in Paths : Call_make_directory(t, p)
    \/ \E t \in Threads : make_directory_L6(t)
    \/ \E t \in Threads : make_directory_L7(t)
    \/ \E t \in Threads : Call_current_directory(t)
    \/ \E t \in Threads : current_directory_L14(t)
    \/ \E t \in Threads : current_directory_L15(t)

Spec == Init /\ [][Next]_vars

TypeOK ==
    /\ pc \in [Threads -> {"idle", "make_directory_L6", "make_directory_L7",
                           "current_directory_L14", "current_directory_L15"}]
    /\ path \in [Threads -> Paths \cup {NoPath}]
    /\ calls \in 0..MaxCalls
    /\ Len(stderr) <= calls
    /\ Len(returned) <= calls

\* ---------------------------------------------------------------- claims
\* Number of positions of seq that hold x.
Count(seq, x) == Cardinality({i \in DOMAIN seq : seq[i] = x})

\* The returned calls of one operation, and those of make_directory(p).
ReturnedOf(op) == {i \in DOMAIN returned : returned[i].op = op}
ReturnedOfPath(p) ==
    {i \in ReturnedOf("make_directory") : returned[i].path = p}

\* The diagnostic line the specification expects of each operation.
ExpectedLine_make_directory(p) == "NOT IMPLEMENTED: make_directory " \o p
ExpectedLine_current_directory == "NOT IMPLEMENTED: current_directory"
ExpectedLine(c) ==
    IF c.op = "make_directory" THEN ExpectedLine_make_directory(c.path)
    ELSE ExpectedLine_current_directory

\* r is an error result that carries the not-supported code.
IsNotSupported(r) ==
    /\ r.is_error
    /\ ~r.has_value
    /\ r.error.code = 38

AllIdle == \A t \in Threads : pc[t] = "idle"

\* C1: every make_directory(P) call that has returned, whatever P, returned
\* an error result carrying errno 38, and none returned success (the
\* return {} of line 9 is never the one that returns).
C1_make_directory_not_supported ==
    \A i \in ReturnedOf("make_directory") :
        /\ IsNotSupported(returned[i].result)
        /\ returned[i].result # ErrorOr_from_value(Void)

C1_witness ==
    \A p \in Paths : ReturnedOfPath(p) # {}

\* C2: every current_directory() call that has returned returned an error
\* result carrying errno 38, and none returned a path value.
C2_current_directory_not_supported ==
    \A i \in ReturnedOf("current_directory") :
        /\ returned[i].result.is_error
        /\ returned[i].result.error.code = 38
        /\ ~returned[i].result.has_value
        /\ returned[i].result.value = NoValue

C2_witness ==
    /\ Cardinality(ReturnedOf("current_directory")) >= 2
    /\ AllIdle

\* C3: for every path P, the stream holds the line
\* "NOT IMPLEMENTED: make_directory P" exactly once per make_directory(P)
\* invocation that has executed its warnln; every invocation that has
\* returned is among them, so the line is in the stream before the error is
\* returned.
C3_make_directory_one_line_before_return ==
    \A p \in Paths :
        Count(stderr, ExpectedLine_make_directory(p))
            = Cardinality(ReturnedOfPath(p))
              + Cardinality({t \in Threads :
                    pc[t] = "make_directory_L7" /\ path[t] = p})

C3_witness ==
    /\ Cardinality(ReturnedOfPath("/tmp/example")) >= 2
    /\ Count(stderr, "NOT IMPLEMENTED: make_directory /tmp/example") >= 2
    /\ ReturnedOfPath("/tmp") # {}

\* C4: the stream holds the line "NOT IMPLEMENTED: current_directory", with
\* nothing after the operation name, exactly once per current_directory()
\* invocation that has executed its warnln; every invocation that has
\* returned is among them.
C4_current_directory_one_line_before_return ==
    Count(stderr, ExpectedLine_current_directory)
        = Cardinality(ReturnedOf("current_directory"))
          + Cardinality({t \in Threads : pc[t] = "current_directory_L15"})

C4_witness ==
    /\ Cardinality(ReturnedOf("current_directory")) >= 2
    /\ Count(stderr, "NOT IMPLEMENTED: current_directory") >= 2
    /\ ReturnedOf("make_directory") # {}

\* C5: the error codes returned by make_directory and by current_directory
\* are one and the same constant, 38, for every input and every call.
C5_same_error_code ==
    /\ make_directory_errno = current_directory_errno
    /\ \A i \in ReturnedOf("make_directory"), j \in ReturnedOf("current_directory") :
            /\ returned[i].result.error.code = returned[j].result.error.code
            /\ returned[i].result.error.code = 38

C5_witness ==
    /\ ReturnedOf("make_directory") # {}
    /\ ReturnedOf("current_directory") # {}

\* C6: after any sequence of calls, each later call returns the result the
\* first call returned: the result does not depend on the calls before it.
C6_history_independent ==
    \A i \in DOMAIN returned :
        /\ returned[i].result.is_error = returned[1].result.is_error
        /\ returned[i].result.error.code = returned[1].result.error.code

C6_witness ==
    /\ Len(returned) >= 3
    /\ returned[1].op # returned[2].op
    /\ returned[3].op = "make_directory"
    /\ \E i \in ReturnedOf("make_directory") : returned[i].path # returned[3].path

\* C7: every returned result has exactly one of the two shapes populated:
\* never both a success payload and an error, never neither.
C7_result_exclusive ==
    \A i \in DOMAIN returned :
        /\ returned[i].result.has_value # returned[i].result.is_error
        /\ returned[i].result.has_value => returned[i].result.error = NoError
        /\ returned[i].result.is_error => returned[i].result.value = NoValue

C7_witness ==
    /\ Len(returned) >= 2
    /\ \E i \in ReturnedOf("make_directory") : returned[i].result.is_error
    /\ \E i \in ReturnedOf("current_directory") : returned[i].result.is_error

\* C8: make_directory("") behaves as make_directory of a non-empty path: it
\* returns the same errno 38 error, and its line is the same form with the
\* empty path substituted, once per invocation.
C8_empty_path_not_special ==
    /\ \A i \in ReturnedOfPath("") :
            /\ IsNotSupported(returned[i].result)
            /\ \A j \in ReturnedOf("make_directory") :
                    returned[j].result = returned[i].result
    /\ Count(stderr, "NOT IMPLEMENTED: make_directory ")
            = Cardinality(ReturnedOfPath(""))
              + Cardinality({t \in Threads :
                    pc[t] = "make_directory_L7" /\ path[t] = ""})

C8_witness ==
    /\ ReturnedOfPath("") # {}
    /\ ReturnedOfPath("/tmp/example") # {}
    /\ Count(stderr, "NOT IMPLEMENTED: make_directory ") >= 1
    /\ Count(stderr, "NOT IMPLEMENTED: make_directory /tmp/example") >= 1

\* C9: no step of an invocation changes the directories of the filesystem
\* or the working directory; a step changes the stream only by appending
\* one line to it.
C9_filesystem_unchanged ==
    [][/\ dirs' = dirs
       /\ cwd' = cwd
       /\ \/ stderr' = stderr
          \/ /\ Len(stderr') = Len(stderr) + 1
             /\ SubSeq(stderr', 1, Len(stderr)) = stderr]_vars

C9_witness ==
    /\ \E i \in ReturnedOf("make_directory") : returned[i].path \notin dirs
    /\ ReturnedOf("current_directory") # {}
    /\ Len(stderr) >= 2

\* C10: under every interleaving of the threads, every invocation that has
\* returned returned the errno 38 error and every invocation that has
\* executed its warnln has exactly one line of its own in the stream; once N
\* invocations have returned and none is in flight the stream holds N lines.
C10_concurrent_invocations_independent ==
    /\ \A i \in DOMAIN returned : IsNotSupported(returned[i].result)
    /\ Len(stderr) = Len(returned)
            + Cardinality({t \in Threads :
                  pc[t] \in {"make_directory_L7", "current_directory_L15"}})
    /\ \A l \in {stderr[i] : i \in DOMAIN stderr} :
            Count(stderr, l)
                = Cardinality({i \in DOMAIN returned : ExpectedLine(returned[i]) = l})
                  + Cardinality({t \in Threads :
                        \/ pc[t] = "make_directory_L7"
                              /\ ExpectedLine_make_directory(path[t]) = l
                        \/ pc[t] = "current_directory_L15"
                              /\ ExpectedLine_current_directory = l})
    /\ AllIdle => Len(stderr) = calls /\ Len(returned) = calls

\* Two invocations overlapped: the one that wrote its line first returned
\* last.
C10_witness ==
    /\ AllIdle
    /\ Len(returned) >= 2
    /\ Len(stderr) = Len(returned)
    /\ stderr[1] = ExpectedLine(returned[2])
    /\ stderr[2] = ExpectedLine(returned[1])
    /\ stderr[1] # stderr[2]
====
